---- MODULE Spec2Model ----
(***************************************************************************)
(* A model of lib/manager.js (class Manager): the asynchronous operations  *)
(* list, get, discover and findDrivers, each of which issues one external  *)
(* command, suspends on it, and parses the text the command printed.       *)
(*                                                                         *)
(* A JavaScript string is modelled as a sequence of one-character strings  *)
(* (a control character, the grave accent and a character outside ASCII   *)
(* are named by their code, "U+XXXX").  The JavaScript value undefined,    *)
(* where the code can produce it in place of a string, is Undef.           *)
(*                                                                         *)
(* The classes Printer and InstallablePrinter only wrap the records they   *)
(* are constructed from, so a result holds the records.  The functions of  *)
(* lodash, arrify and fuzzy that manager.js calls are modelled by what     *)
(* they compute on the values passed to them.                              *)
(***************************************************************************)
EXTENDS Integers, Sequences, FiniteSets, TLC

VARIABLES pc, op, arg, out, answer, res

vars == <<pc, op, arg, out, answer, res>>

-----------------------------------------------------------------------------
(* Bounds of the model.                                                    *)

\* number of calls that can be in flight at once (specification SpecConc)
NumCalls == 2

\* number of lines in a generated `lpinfo -v` output
MaxDeviceLines == 2

\* number of lines in a generated `lpstat -s` output after the first line
MaxPrinterLines == 1

\* number of text lines in a generated `lpinfo -l -m` output
MaxDriverLines == 12

\* number of slugs in a generated findDrivers query
MaxSlugs == 2

-----------------------------------------------------------------------------
(* Characters and JavaScript string primitives.                            *)

Undef == <<"#undefined">>

Min(S) == CHOOSE i \in S : \A j \in S : i <= j

Max(S) == CHOOSE i \in S : \A j \in S : i >= j

UpperCase == <<"A","B","C","D","E","F","G","H","I","J","K","L","M","N","O","P","Q","R","S","T","U",
               "V","W","X","Y","Z">>

LowerCase == <<"a","b","c","d","e","f","g","h","i","j","k","l","m","n","o","p","q","r","s","t","u",
               "v","w","x","y","z">>

Range(s) == {s[i] : i \in DOMAIN s}

\* [a-zA-Z]
Letters == Range(UpperCase) \cup Range(LowerCase)

\* what String.prototype.trim and lodash's _.trim strip: WhiteSpace and LineTerminator
WhiteSpace == {" ", "\t", "\n", "\r", "\f", "U+000B", "U+00A0", "U+2028", "U+2029", "U+FEFF"}

\* what `.` of a regular expression does not match
LineTerminators == {"\n", "\r", "U+2028", "U+2029"}

\* the single characters of /\r\n|[\n\r\u0085  ]/
LineSeparators == {"\n", "\r", "U+0085", "U+2028", "U+2029"}

From(s, i) == SubSeq(s, i, Len(s))

\* String.prototype.trim
Trim(s) ==
  LET N == {i \in 1..Len(s) : s[i] \notin WhiteSpace}
  IN  IF N = {} THEN << >> ELSE SubSeq(s, Min(N), Max(N))

\* _.trim: lodash turns undefined into ''
LodashTrim(s) == IF s = Undef THEN << >> ELSE Trim(s)

\* _.toLower on ASCII
ToLowerChar(c) ==
  IF c \in Range(UpperCase)
  THEN LowerCase[CHOOSE i \in DOMAIN UpperCase : UpperCase[i] = c]
  ELSE c

ToLower(s) == [i \in DOMAIN s |-> ToLowerChar(s[i])]

\* String.prototype.split(c) for a one-character separator c
RECURSIVE Split(_, _)
Split(s, c) ==
  LET P == {i \in 1..Len(s) : s[i] = c}
  IN  IF P = {} THEN <<s>>
      ELSE <<SubSeq(s, 1, Min(P) - 1)>> \o Split(From(s, Min(P) + 1), c)

\* String.prototype.split(/\r\n|[\n\r\u0085  ]/g)
RECURSIVE SplitLines(_)
SplitLines(s) ==
  LET P == {i \in 1..Len(s) : s[i] \in LineSeparators}
  IN  IF P = {} THEN <<s>>
      ELSE LET i == Min(P)
               w == IF s[i] = "\r" /\ i < Len(s) /\ s[i + 1] = "\n" THEN 2 ELSE 1
           IN  <<SubSeq(s, 1, i - 1)>> \o SplitLines(From(s, i + w))

\* array[i] with a 0-based index i: undefined past the end
At(a, i) == IF i + 1 \in DOMAIN a THEN a[i + 1] ELSE Undef

\* String.prototype.lastIndexOf(c), as a 1-based position, 0 when c is absent
LastIndexOf(s, c) ==
  LET P == {i \in 1..Len(s) : s[i] = c} IN IF P = {} THEN 0 ELSE Max(P)

\* Array.prototype.join(' ')
RECURSIVE Join(_)
Join(a) ==
  IF a = << >> THEN << >>
  ELSE IF Len(a) = 1 THEN a[1]
  ELSE a[1] \o <<" ">> \o Join(Tail(a))

\* whether s holds the text t at position i
HasAt(s, i, t) == i >= 1 /\ i + Len(t) - 1 <= Len(s) /\ SubSeq(s, i, i + Len(t) - 1) = t

-----------------------------------------------------------------------------
(* Results of a call: what the promise returned by an async method settles *)
(* to.  One record shape serves the four operations.                       *)

EmptyAnswer == << >>

NoResult ==
  [kind |-> "none", error |-> "", printers |-> << >>, printer |-> << >>,
   devices |-> EmptyAnswer, drivers |-> << >>]

Throw(e) == [NoResult EXCEPT !.kind = "throw", !.error = e]

Return == [NoResult EXCEPT !.kind = "return"]

-----------------------------------------------------------------------------
(* Manager._list, Manager.list, Manager.get                                *)

\* a split at the last colon of the line instead
SplitColonLast(line) ==
  LET P == {i \in 1..Len(line) : line[i] = ":"}
  IN  IF P = {} THEN <<line>>
      ELSE <<SubSeq(line, 1, Max(P) - 1),
             IF Max(P) = Len(line) THEN Undef ELSE From(line, Max(P) + 1),
             << >>>>

\* line.split(/:(.+)?/): the text before the first colon, then the text after
\* it (undefined when nothing follows the colon), then '' ; the line alone
\* when it holds no colon
SplitColonRest(line) ==
  LET P == {i \in 1..Len(line) : line[i] = ":"}
  IN  IF P = {} THEN <<line>>
      ELSE <<SubSeq(line, 1, Min(P) - 1),
             IF Min(P) = Len(line) THEN Undef ELSE From(line, Min(P) + 1),
             << >>>>

\* the callback of _.map in _list: one record per line, or a TypeError when
\* parts[1] is undefined
PrinterOfLine(line, defaults) ==
  LET parts == SplitColonRest(line)
      name == Trim(From(parts[1], LastIndexOf(parts[1], " ") + 1))
  IN  IF At(parts, 1) = Undef
      THEN [thrown |-> TRUE, name |-> name, connection |-> Undef, isDefault |-> FALSE]
      ELSE [thrown |-> FALSE, name |-> name, connection |-> Trim(At(parts, 1)),
            isDefault |-> (defaults = name)]

_list(result) ==
  IF result.stderr # << >> \/ result.stdout = << >>
  THEN Return
  ELSE LET lines == SelectSeq(SplitLines(result.stdout), LAMBDA l : l # << >>)
       IN  IF At(lines, 0) = Undef
           THEN Throw("TypeError")
           ELSE LET defaults == LodashTrim(At(Split(lines[1], ":"), 1))
                    items == [i \in 1..(Len(lines) - 1) |-> PrinterOfLine(lines[i + 1], defaults)]
                IN  IF \E i \in DOMAIN items : items[i].thrown
                    THEN Throw("TypeError")
                    ELSE [Return EXCEPT !.printers =
                            [i \in DOMAIN items |->
                               [name |-> items[i].name, connection |-> items[i].connection,
                                isDefault |-> items[i].isDefault]]]

\* Manager.list after its await
list(result) == _list(result)

\* the predicate of _.find in Manager.get
Wanted(item, name) ==
  IF name # Undef /\ name # << >>
  THEN ToLower(item.name) = ToLower(name)
  ELSE item.isDefault

\* Manager.get after its await
get(result, name) ==
  LET r == _list(result)
      H == {i \in DOMAIN r.printers : Wanted(r.printers[i], name)}
  IN  IF r.kind = "throw" THEN r
      ELSE [Return EXCEPT !.printer = IF H = {} THEN << >> ELSE <<r.printers[Min(H)]>>]

-----------------------------------------------------------------------------
(* decodeURIComponent                                                      *)

HexDigits == <<"0","1","2","3","4","5","6","7","8","9","a","b","c","d","e","f">>

IsHex(c) == ToLowerChar(c) \in Range(HexDigits)

HexVal(c) == (CHOOSE i \in DOMAIN HexDigits : HexDigits[i] = ToLowerChar(c)) - 1

\* the characters of code 0..127, the character of code b at index b + 1
Ascii ==
  <<
       "U+0000", "U+0001", "U+0002", "U+0003", "U+0004", "U+0005", "U+0006", "U+0007", "U+0008", "\t", "\n", "U+000B", "\f", "\r", "U+000E", "U+000F",
       "U+0010", "U+0011", "U+0012", "U+0013", "U+0014", "U+0015", "U+0016", "U+0017", "U+0018", "U+0019", "U+001A", "U+001B", "U+001C", "U+001D", "U+001E", "U+001F",
       " ", "!", "\"", "#", "$", "%", "&", "'", "(", ")", "*", "+", ",", "-", ".", "/",
       "0", "1", "2", "3", "4", "5", "6", "7", "8", "9", ":", ";", "<", "=", ">", "?",
       "@", "A", "B", "C", "D", "E", "F", "G", "H", "I", "J", "K", "L", "M", "N", "O",
       "P", "Q", "R", "S", "T", "U", "V", "W", "X", "Y", "Z", "[", "\\", "]", "^", "_",
       "U+0060", "a", "b", "c", "d", "e", "f", "g", "h", "i", "j", "k", "l", "m", "n", "o",
       "p", "q", "r", "s", "t", "u", "v", "w", "x", "y", "z", "{", "|", "}", "~", "U+007F" >>

\* the octet written %XY at position i of s, or -1 when no escape is there
OctetAt(s, i) ==
  IF i + 2 <= Len(s) /\ s[i] = "%" /\ IsHex(s[i + 1]) /\ IsHex(s[i + 2])
  THEN 16 * HexVal(s[i + 1]) + HexVal(s[i + 2])
  ELSE -1

\* how many continuation octets follow the leading octet b of a UTF-8 sequence;
\* -1 when b cannot lead one
Continuations(b) ==
  IF b >= 194 /\ b <= 223 THEN 1
  ELSE IF b >= 224 /\ b <= 239 THEN 2
  ELSE IF b >= 240 /\ b <= 244 THEN 3
  ELSE -1

\* the range the second octet of a sequence led by b must lie in
SecondOctetOk(b, c) ==
  IF b = 224 THEN c >= 160 /\ c <= 191
  ELSE IF b = 237 THEN c >= 128 /\ c <= 159
  ELSE IF b = 240 THEN c >= 144 /\ c <= 191
  ELSE IF b = 244 THEN c >= 128 /\ c <= 143
  ELSE c >= 128 /\ c <= 191

\* whether a well-formed multi-octet sequence led by octet b starts at i
MultiOctetOk(s, i, b) ==
  LET n == Continuations(b)
  IN  /\ n > 0
      /\ \A k \in 1..n : OctetAt(s, i + 3 * k) >= 128 /\ OctetAt(s, i + 3 * k) <= 191
      /\ SecondOctetOk(b, OctetAt(s, i + 3))

\* the character a well-formed multi-octet sequence decodes to: the three
\* separators the code treats specially, any other one as "U+XXXX"
MultiOctetChar(s, i, b) ==
  IF b = 194 /\ OctetAt(s, i + 3) = 133 THEN "U+0085"
  ELSE IF b = 226 /\ OctetAt(s, i + 3) = 128 /\ OctetAt(s, i + 6) = 168 THEN "U+2028"
  ELSE IF b = 226 /\ OctetAt(s, i + 3) = 128 /\ OctetAt(s, i + 6) = 169 THEN "U+2029"
  ELSE "U+XXXX"

\* decodeURIComponent(s) from position i on, one escape at a time: thrown is
\* TRUE for a URIError
RECURSIVE DecodeFrom(_, _)
DecodeFrom(s, i) ==
  LET P == {p \in i..Len(s) : s[p] = "%"}
  IN  IF P = {} THEN [thrown |-> FALSE, text |-> From(s, i)]
      ELSE LET p == Min(P)
               b == OctetAt(s, p)
               n == IF b < 128 THEN 0 ELSE Continuations(b)
               r == DecodeFrom(s, p + 3 * (n + 1))
           IN  IF b < 0 \/ (b >= 128 /\ ~MultiOctetOk(s, p, b)) \/ r.thrown
               THEN [thrown |-> TRUE, text |-> << >>]
               ELSE [thrown |-> FALSE,
                     text |-> SubSeq(s, i, p - 1)
                              \o <<IF b < 128 THEN Ascii[b + 1] ELSE MultiOctetChar(s, p, b)>>
                              \o r.text]

\* decodeURIComponent: its argument is converted to a string first
decodeURIComponent(s) == DecodeFrom(IF s = Undef THEN <<"u","n","d","e","f","i","n","e",
                                                        "d">> ELSE s, 1)


-----------------------------------------------------------------------------
(* The three patterns of Manager.discover.  Each is a literal evaluated    *)
(* inside the forEach callback, so each line gets new pattern objects; a   *)
(* pattern with the g flag starts its search at its lastIndex.  An exec    *)
(* operator yields the groups the code reads, Undef for a group that did   *)
(* not take part, and matched = FALSE for null.                            *)

IGNORED_DEVICES ==
  {<<"h","t","t","p">>, <<"h","t","t","p","s">>, <<"i","p","p">>, <<"i","p","p","s">>, <<"l","p",
                                                            "d">>, <<"s","m","b">>, <<"s","o","c",
                                                            "k","e","t">>, <<"f","a","x">>,
   <<"c","a","n","o","n","o","i","p","n","e","t","s","2">>, <<"c","n","i","p","s","2">>, <<"e","p",
                                                            "s","o","n","f","a","x">>, <<"h","p",
                                                            "f","a","x">>}

getIgnoredDevices == IGNORED_DEVICES

\* a pattern object as its literal creates it
NewRegExp == [lastIndex |-> 0]

\* ^ under the m flag: at the start of the text or after a line terminator
AtLineStart(s, i) == i = 1 \/ s[i - 1] \in LineTerminators

\* the last position that .* can reach from position i
DotStarEnd(s, i) ==
  LET T == {j \in i..Len(s) : s[j] \in LineTerminators}
  IN  IF T = {} THEN Len(s) ELSE Min(T) - 1

NoMatch == [matched |-> FALSE, g1 |-> Undef, g2 |-> Undef, g4 |-> Undef]

\* /(^([a-zA-Z].*):\/\/)/gmi : the ends j of a group 2 that starts at i
TypeEnds(s, i) == {j \in i..DotStarEnd(s, i) : HasAt(s, j + 1, <<":","/","/">>)}

\* rx_type.exec(s): the leftmost start, and from it the longest group 2
rx_type_exec(rx, s) ==
  LET I == {i \in (rx.lastIndex + 1)..Len(s) :
              AtLineStart(s, i) /\ s[i] \in Letters /\ TypeEnds(s, i) # {}}
  IN  IF I = {} THEN NoMatch
      ELSE [NoMatch EXCEPT !.matched = TRUE,
                           !.g2 = SubSeq(s, Min(I), Max(TypeEnds(s, Min(I))))]

\* /(usb:\/\/)(.*)(\/)(.*)(\?)(.*)/gmi with "usb://" found at i: the slashes
\* that can end group 2, i.e. those followed on the same line by a '?'
UsbSlashes(s, i) ==
  {a \in (i + 6)..DotStarEnd(s, i + 6) :
     s[a] = "/" /\ \E q \in (a + 1)..DotStarEnd(s, i + 6) : s[q] = "?"}

\* the '?' that ends group 4: the last one of the line
UsbQuery(s, i) == Max({q \in (i + 6)..DotStarEnd(s, i + 6) : s[q] = "?"})

\* rx_usb.exec(s): the leftmost start; group 2 and then group 4 the longest
rx_usb_exec(rx, s) ==
  LET I == {i \in (rx.lastIndex + 1)..Len(s) :
              /\ i + 5 <= Len(s)
              /\ ToLower(SubSeq(s, i, i + 5)) = <<"u","s","b",":","/","/">>
              /\ UsbSlashes(s, i) # {}}
  IN  IF I = {} THEN NoMatch
      ELSE LET i == Min(I)
               a == Max(UsbSlashes(s, i))
           IN  [NoMatch EXCEPT !.matched = TRUE,
                               !.g2 = SubSeq(s, i + 6, a - 1),
                               !.g4 = SubSeq(s, a + 1, UsbQuery(s, i) - 1)]

\* /\/\/(.*?)\._/gmi with "//" found at i: where "._" can follow group 1
NetworkDots(s, i) == {d \in (i + 2)..DotStarEnd(s, i + 2) : HasAt(s, d, <<".","_">>)}

\* rx_network.exec(s): the leftmost start, and from it the shortest group 1
rx_network_exec(rx, s) ==
  LET I == {i \in (rx.lastIndex + 1)..Len(s) :
              HasAt(s, i, <<"/","/">>) /\ NetworkDots(s, i) # {}}
  IN  IF I = {} THEN NoMatch
      ELSE [NoMatch EXCEPT !.matched = TRUE,
                           !.g1 = SubSeq(s, Min(I) + 2, Min(NetworkDots(s, Min(I))) - 1)]

\* a string or undefined in a condition: falsy when undefined or ''
Truthy(s) == s # Undef /\ s # << >>

-----------------------------------------------------------------------------
(* Manager.discover                                                        *)

\* the model string of a decoded uri of connection type connection_type
ModelOf(connection_type, uri_decoded) ==
  IF connection_type = <<"u","s","b">>
  THEN LET regexed_usb == rx_usb_exec(NewRegExp, uri_decoded)
       IN  IF regexed_usb.matched /\ Truthy(regexed_usb.g2) /\ Truthy(regexed_usb.g4)
           THEN regexed_usb.g2 \o <<" ">> \o regexed_usb.g4
           ELSE <<"u","n","k","n","o","w","n">>
  ELSE LET regexed_network == rx_network_exec(NewRegExp, uri_decoded)
       IN  IF regexed_network.matched /\ Truthy(regexed_network.g1)
           THEN regexed_network.g1
           ELSE <<"u","n","k","n","o","w","n">>

\* connection_type: group 2 of rx_type, '' when there is no match
ConnectionTypeOf(uri_decoded) ==
  LET regexed_type == rx_type_exec(NewRegExp, uri_decoded)
  IN  IF regexed_type.matched /\ Truthy(regexed_type.g2) THEN regexed_type.g2 ELSE << >>

\* params, the argument of new InstallablePrinter
Params(type, uri_decoded) ==
  [uri |-> type, uri_pretty |-> uri_decoded,
   protocol |-> ConnectionTypeOf(uri_decoded),
   model |-> ModelOf(ConnectionTypeOf(uri_decoded), uri_decoded)]

\* answer[protocol] made an array if it is none, then the device pushed
Push(ans, protocol, device) ==
  [k \in DOMAIN ans \cup {protocol} |->
     IF k = protocol
     THEN (IF k \in DOMAIN ans THEN ans[k] ELSE << >>) \o <<device>>
     ELSE ans[k]]

\* the test made on the token at index 0 instead
IgnoredByFirstToken(parts) == parts[1] \in getIgnoredDevices

\* whether the line is skipped: the test of the token at index 1
Ignored(parts) == At(parts, 1) \in getIgnoredDevices

\* the forEach callback on one line: the new answer, and whether it threw
DiscoverLine(ans, item) ==
  LET parts == Split(item, " ")
      type == At(parts, 1)
      protocol == parts[1]
      decoded == decodeURIComponent(type)
  IN  IF Ignored(parts) THEN [thrown |-> FALSE, answer |-> ans]
      ELSE IF decoded.thrown
      THEN [thrown |-> TRUE,
            answer |-> IF protocol \in DOMAIN ans THEN ans
                       ELSE [k \in DOMAIN ans \cup {protocol} |->
                               IF k = protocol THEN << >> ELSE ans[k]]]
      ELSE [thrown |-> FALSE, answer |-> Push(ans, protocol, Params(type, decoded.text))]

\* lines.forEach: stops at the first line that throws
RECURSIVE DiscoverLines(_, _)
DiscoverLines(ans, lines) ==
  IF lines = << >> THEN [thrown |-> FALSE, answer |-> ans]
  ELSE LET r == DiscoverLine(ans, Head(lines))
       IN  IF r.thrown THEN r ELSE DiscoverLines(r.answer, Tail(lines))

\* the lines of the output: each trimmed, the empty ones dropped
DeviceLines(stdout) ==
  SelectSeq([i \in DOMAIN SplitLines(stdout) |-> Trim(SplitLines(stdout)[i])],
            LAMBDA l : l # << >>)

\* Manager.discover after its await, on the answer object it made before it:
\* what the callbacks leave in that object
Answered(ans, result) == DiscoverLines(ans, DeviceLines(result.stdout)).answer

\* ... and what the call settles to
discover(ans, result) ==
  IF DiscoverLines(ans, DeviceLines(result.stdout)).thrown
  THEN Throw("URIError")
  ELSE [Return EXCEPT !.devices = Answered(ans, result)]


-----------------------------------------------------------------------------
(* fuzzy.match and fuzzy.filter, as Manager.findDrivers uses them (with    *)
(* the extract option, without caseSensitive).                             *)

\* the loop of fuzzy.match from index idx of str on: patternIdx is the number of
\* pattern characters matched so far; the score of an exact match is Infinity
RECURSIVE MatchLoop(_, _, _, _, _, _)
MatchLoop(pattern, str, idx, patternIdx, currScore, totalScore) ==
  IF idx > Len(str)
  THEN [matched |-> (patternIdx = Len(pattern)),
        infinite |-> (ToLower(str) = pattern),
        score |-> totalScore]
  ELSE IF patternIdx < Len(pattern) /\ ToLowerChar(str[idx]) = pattern[patternIdx + 1]
  THEN MatchLoop(pattern, str, idx + 1, patternIdx + 1,
                 1 + 2 * currScore, totalScore + 1 + 2 * currScore)
  ELSE MatchLoop(pattern, str, idx + 1, patternIdx, 0, totalScore)

FuzzyMatch(pattern, str) == MatchLoop(ToLower(pattern), str, 1, 0, 0, 0)

\* the comparator of fuzzy.filter's sort: whether hit a comes before hit b
\* (b.score - a.score, and the index when that is 0 or NaN)
Before(a, b) ==
  IF a.infinite # b.infinite THEN a.infinite
  ELSE IF ~a.infinite /\ a.score # b.score THEN a.score > b.score
  ELSE a.index < b.index

\* fuzzy.filter(pattern, drivers, {extract: el => el.makeAndModel}): the indices
\* of the drivers that match, best first
FuzzyFilter(pattern, drivers) ==
  LET hit == [i \in DOMAIN drivers |->
                LET m == FuzzyMatch(pattern, drivers[i].makeAndModel)
                IN  [matched |-> m.matched, infinite |-> m.infinite,
                     score |-> m.score, index |-> i]]
      H == {i \in DOMAIN drivers : hit[i].matched}
      rank == [i \in H |-> Cardinality({j \in H : Before(hit[j], hit[i])})]
  IN  [k \in 1..Cardinality(H) |-> CHOOSE i \in H : rank[i] = k - 1]

-----------------------------------------------------------------------------
(* Manager.findDrivers                                                     *)

DefaultMaxSize == 10

\* parts[k].split('=')[1], before its trim
Field(line) == At(Split(line, "="), 1)

\* the while loop that fills `drivers`, four lines at a time; a driver object
\* carries its position in the array as ref, its identity
RECURSIVE ParseDrivers(_, _)
ParseDrivers(lines, drivers) ==
  IF Len(lines) > 4
  THEN IF \E k \in 1..4 : Field(lines[k]) = Undef
       THEN [thrown |-> TRUE, drivers |-> drivers]
       ELSE ParseDrivers(SubSeq(lines, 5, Len(lines)),
                         Append(drivers,
                                [ref |-> Len(drivers) + 1,
                                 driver |-> Trim(Field(lines[1])),
                                 lang |-> Trim(Field(lines[2])),
                                 makeAndModel |-> Trim(Field(lines[3])),
                                 id |-> Trim(Field(lines[4]))]))
  ELSE [thrown |-> FALSE, drivers |-> drivers]

\* the loop with tokens.slice(0, --index): the full window is never tried
RECURSIVE WindowsPreDecrement(_, _, _)
WindowsPreDecrement(tokens, index, drivers) ==
  IF index > 0
  THEN LET items == FuzzyFilter(Join(SubSeq(tokens, 1, index - 1)), drivers)
       IN  IF Len(items) > 0 THEN items
           ELSE WindowsPreDecrement(tokens, index - 1, drivers)
  ELSE <<0>>

\* the loop over the windows of one slug, from `index` tokens down to one: the
\* hits of the first window that has any, <<0>> (undefined) when none has
RECURSIVE Windows(_, _, _)
Windows(tokens, index, drivers) ==
  IF index > 0
  THEN LET items == FuzzyFilter(Join(SubSeq(tokens, 1, index)), drivers)
       IN  IF Len(items) > 0 THEN items ELSE Windows(tokens, index - 1, drivers)
  ELSE <<0>>

\* the callback of _.map(slugs, ...), and _.flatten of what it gives: driver
\* refs, with 0 for the undefined of a slug without hits
HitsOf(slug, drivers) == Windows(Split(slug, " "), Len(Split(slug, " ")), drivers)

RECURSIVE Flatten(_, _)
Flatten(slugs, drivers) ==
  IF slugs = << >> THEN << >>
  ELSE HitsOf(Head(slugs), drivers) \o Flatten(Tail(slugs), drivers)

\* _.union of one array: its distinct elements, in order of first occurrence
Union(a) ==
  LET F == {i \in DOMAIN a : \A j \in 1..(i - 1) : a[j] # a[i]}
  IN  [k \in 1..Cardinality(F) |->
         a[CHOOSE i \in F : Cardinality({j \in F : j < i}) = k - 1]]

\* _.slice(a, 0, maxsize)
Slice(a, maxsize) == SubSeq(a, 1, IF maxsize < Len(a) THEN maxsize ELSE Len(a))

\* the element undefined of a result array
UndefinedDriver ==
  [ref |-> 0, driver |-> Undef, lang |-> Undef, makeAndModel |-> Undef, id |-> Undef]

Deref(refs, drivers) ==
  [k \in DOMAIN refs |-> IF refs[k] = 0 THEN UndefinedDriver ELSE drivers[refs[k]]]

\* Manager.findDrivers after its await; a is the call's arguments: a.given says
\* whether slugs is truthy, a.slugs is arrify(slugs)
findDrivers(result, a) ==
  LET parsed == ParseDrivers(Split(result.stdout, "\n"), << >>)
      drivers == parsed.drivers
  IN  IF parsed.thrown THEN Throw("TypeError")
      ELSE IF ~a.given THEN [Return EXCEPT !.drivers = drivers]
      ELSE IF a.slugs = << >> THEN Return
      ELSE [Return EXCEPT !.drivers =
              Deref(Slice(Union(Flatten(a.slugs, drivers)), a.maxsize), drivers)]


-----------------------------------------------------------------------------
(* What the external commands can print: the texts the calls are run on.   *)

\* the concatenation of the strings of a sequence
RECURSIVE Concat(_)
Concat(a) == IF a = << >> THEN << >> ELSE Head(a) \o Concat(Tail(a))

\* the sequences of at most n elements of the sequence pool
UpTo(pool, n) ==
  UNION {{[i \in 1..k |-> pool[f[i]]] : f \in [1..k -> DOMAIN pool]} : k \in 0..n}

\* the text of the given lines, each ended by a newline
Text(lines) == Concat([i \in DOMAIN lines |-> lines[i] \o <<"\n">>])

Resolved(stdout, stderr) == [rejected |-> FALSE, stdout |-> stdout, stderr |-> stderr]

\* the promise of exec rejected: the command failed or could not be started
Rejected == [rejected |-> TRUE, stdout |-> << >>, stderr |-> << >>]

\* lines of `lpinfo -v`
DeviceLinePool ==
  << <<"n","e","t","w","o","r","k"," ","s","o","c","k","e","t">>,
     <<"n","e","t","w","o","r","k"," ","i","p","p">>,
     <<"s","o","c","k","e","t"," ","s","o","c","k","e","t",":","/","/","1","9","2",".","1","6","8",
       ".","1",".","5",":","9","1","0","0">>,
     <<"d","n","s","s","d"," ","d","n","s","s","d",":","/","/","B","r","o","t","h","e","r","%","2",
       "0","H","L","-","5","2","7","0","D","N","%","2","0","s","e","r","i","e","s",".","_","p","d",
       "l","-","d","a","t","a","s","t","r","e","a","m",".","_","t","c","p",".","l","o","c","a","l",
       ".","/","?","b","i","d","i">>,
     <<"n","e","t","w","o","r","k"," ","l","p","d",":","/","/","h","o","s","t","/","q","u","e","u",
       "e">>,
     <<"d","i","r","e","c","t"," ","u","s","b",":","/","/","H","P","/","L","a","s","e","r","J","e",
       "t","%","2","0","1","0","2","0","?","s","e","r","i","a","l","=","A","1">>,
     <<"d","i","r","e","c","t"," ","u","s","b",":","/","/","H","P","/","L","J","?","u","=","x",":",
       "/","/","y">>,
     <<"d","i","r","e","c","t"," ","u","s","b",":","/","/","H","P","/","L","J","?","a","=","/","x",
       "?","y">>,
     <<"d","i","r","e","c","t"," ","h","p">>,
     <<"d","i","r","e","c","t"," ","a","%">>,
     <<"d","i","r","e","c","t"," ","/","/","f","o","o",".","_","b","a","r">>,
     <<"l","o","n","e">> >>

DeviceResults ==
  {Resolved(Text(lines), << >>) : lines \in UpTo(DeviceLinePool, MaxDeviceLines)}

\* `lpstat -s`: its first line, and the lines that follow it
DefaultLinePool ==
  << <<"s","y","s","t","e","m"," ","d","e","f","a","u","l","t"," ","d","e","s","t","i","n","a","t",
       "i","o","n",":"," ","H","P","_","L","a","s","e","r","J","e","t">>,
     <<"n","o"," ","s","y","s","t","e","m"," ","d","e","f","a","u","l","t"," ","d","e","s","t","i",
       "n","a","t","i","o","n">> >>

PrinterLinePool ==
  << <<"d","e","v","i","c","e"," ","f","o","r"," ","H","P","_","L","a","s","e","r","J","e","t",":",
       " ","i","p","p",":","/","/","h","o","s","t","/","p","r","i","n","t","e","r","s","/","H","P",
       "_","L","a","s","e","r","J","e","t">>,
     <<"p","r","i","n","t","e","r"," ","H","P","_","L","a","s","e","r","J","e","t"," ","i","s"," ",
       "i","d","l","e","."," "," ","e","n","a","b","l","e","d"," ","s","i","n","c","e"," ",".",".",
       ".",":"," ","i","p","p",":","/","/","h","o","s","t","/","p","r","i","n","t","e","r","s","/",
       "H","P","_","L","a","s","e","r","J","e","t">>,
     <<"d","e","v","i","c","e"," ","f","o","r"," ","O","f","f","i","c","e",":"," ","u","s","b",":",
       "/","/","H","P","/","L","J","?","s","e","r","i","a","l","=","A","1">>,
     <<"d","e","v","i","c","e"," ","f","o","r"," ","B","r","o","k","e","n",":">> >>

\* outputs without a line that is not blank
BlankTexts == {<< >>, <<"\n">>, <<"\r","\n","\n">>, <<" ","\n">>}

PrinterTexts ==
  BlankTexts \cup
  {Text(<<first>> \o lines) :
     first \in Range(DefaultLinePool), lines \in UpTo(PrinterLinePool, MaxPrinterLines)}

PrinterResults ==
  {Resolved(stdout, << >>) : stdout \in PrinterTexts}
  \cup {Resolved(stdout, <<"l","p","s","t","a","t",":"," ","e","r","r","o",
                           "r">>) : stdout \in {<< >>, Text(<<DefaultLinePool[1]>>)}}

\* the names Manager.get is called with
NamePool == {Undef, <<"h","p","_","l","a","s","e","r","j","e","t">>, <<"O","F","F","I","C",
                                                            "E">>, <<"n","o","b","o","d","y">>}

\* lines of `lpinfo -l -m`, four to a driver
DriverLinePool ==
  << <<"M","o","d","e","l",":"," "," ","n","a","m","e"," ","="," ","b","r","o","t","h","e","r","-",
       "5","2","7","0",".","p","p","d">>,
     <<" "," "," "," "," "," "," "," ","n","a","t","u","r","a","l","_","l","a","n","g","u","a","g",
       "e"," ","="," ","e","n">>,
     <<" "," "," "," "," "," "," "," ","m","a","k","e","-","a","n","d","-","m","o","d","e","l"," ",
       "="," ","B","r","o","t","h","e","r"," ","H","L","-","5","2","7","0","D","N"," ","s","e","r",
       "i","e","s">>,
     <<" "," "," "," "," "," "," "," ","d","e","v","i","c","e","-","i","d"," ","="," ","M","F","G",
       ":","B","r","o","t","h","e","r",";","M","D","L",":","H","L","-","5","2","7","0","D","N">>,
     <<"M","o","d","e","l",":"," "," ","n","a","m","e"," ","="," ","h","p","-","l","j","4",".","p",
       "p","d">>,
     <<" "," "," "," "," "," "," "," ","n","a","t","u","r","a","l","_","l","a","n","g","u","a","g",
       "e"," ","="," ","e","n">>,
     <<" "," "," "," "," "," "," "," ","m","a","k","e","-","a","n","d","-","m","o","d","e","l"," ",
       "="," ","H","P"," ","L","a","s","e","r","J","e","t"," ","4">>,
     <<" "," "," "," "," "," "," "," ","d","e","v","i","c","e","-","i","d"," ","="," ","M","F","G",
       ":","H","P",";","C","M","D","=","P","C","L">>,
     <<"M","o","d","e","l",":"," "," ","n","a","m","e"," ","="," ","b","r","o","t","h","e","r","-",
       "2","0","3","0",".","p","p","d">>,
     <<" "," "," "," "," "," "," "," ","n","a","t","u","r","a","l","_","l","a","n","g","u","a","g",
       "e"," ","="," ","e","n">>,
     <<" "," "," "," "," "," "," "," ","m","a","k","e","-","a","n","d","-","m","o","d","e","l"," ",
       "="," ","B","r","o","t","h","e","r"," ","H","L","-","2","0","3","0">>,
     <<" "," "," "," "," "," "," "," ","d","e","v","i","c","e","-","i","d"," ","="," ">>,
     <<"M","o","d","e","l",":"," "," ","n","a","m","e"," ","="," ","r","a","w">>,
     <<" "," "," "," "," "," "," "," ","n","a","t","u","r","a","l","_","l","a","n","g","u","a","g",
       "e"," ","="," ","e","n">>,
     <<" "," "," "," "," "," "," "," ","m","a","k","e","-","a","n","d","-","m","o","d","e","l"," ",
       "="," ","R","a","w"," ","Q","u","e","u","e">>,
     <<" "," "," "," "," "," "," "," ","d","e","v","i","c","e","-","i","d"," ","="," ">>,
     <<"M","o","d","e","l",":"," "," ","n","a","m","e"," ","="," ","t","e","x","t","o","n","l","y",
       ".","p","p","d">>,
     <<" "," "," "," "," "," "," "," ","n","a","t","u","r","a","l","_","l","a","n","g","u","a","g",
       "e"," ","="," ","e","n">> >>

\* the first n lines of the listing, with a newline between two lines
Listing(n) ==
  Concat([i \in 1..n |-> IF i < n THEN DriverLinePool[i] \o <<"\n">> ELSE DriverLinePool[i]])

\* the listing cut after n lines, with and without the newline that ends it,
\* and one whose third line holds no '='
DriverTexts ==
  {Listing(n) : n \in 0..MaxDriverLines}
  \cup {Listing(n) \o <<"\n">> : n \in 0..MaxDriverLines}
  \cup {Text(<<<<"n","a","m","e"," ","="," ","a">>, <<"n","a","t","u","r","a","l","_","l","a","n",
                                                      "g","u","a","g","e"," ","="," ","e",
                                                      "n">>, <<"m","a","k","e","-","a","n","d","-",
                                                            "m","o","d","e","l">>, <<"d","e","v",
                                                            "i","c","e","-","i","d"," ","=",
                                                            " ">>>>)}

DriverResults == {Resolved(stdout, << >>) : stdout \in DriverTexts}

SlugPool ==
  << <<"B","r","o","t","h","e","r"," ","H","L","-","5","2","7","0","D","N">>, <<"B","r","o","t",
                                                            "h","e","r"," ","z","z","z">>, <<"z",
                                                            "z","z">>, <<"H","P"," ","L","a","s",
                                                            "e","r","J","e","t"," ","4">>, <<"h",
                                                            "l","-","2">> >>

NoArgs == [name |-> Undef, given |-> FALSE, slugs |-> << >>, maxsize |-> DefaultMaxSize]

\* the arguments of findDrivers: slugs omitted, or an array of slugs
QueryPool ==
  {NoArgs}
  \cup {[NoArgs EXCEPT !.given = TRUE, !.slugs = slugs, !.maxsize = maxsize] :
          slugs \in UpTo(SlugPool, MaxSlugs), maxsize \in {1, DefaultMaxSize}}

\* the smaller pools of the specification of concurrent calls
ConcDeviceResults ==
  {Resolved(Text(lines), << >>) :
     lines \in {<<DeviceLinePool[4]>>, <<DeviceLinePool[1], DeviceLinePool[6]>>}}

ConcPrinterResults ==
  {Resolved(Text(lines), << >>) :
     lines \in {<<DefaultLinePool[1], PrinterLinePool[1]>>,
                <<DefaultLinePool[2], PrinterLinePool[3]>>}}

ConcDriverResults == {Resolved(Listing(n) \o <<"\n">>, << >>) : n \in {4, 8}}

ConcNamePool == {Undef, <<"O","F","F","I","C","E">>}

ConcQueryPool ==
  {NoArgs, [NoArgs EXCEPT !.given = TRUE, !.slugs = <<SlugPool[5]>>]}

-----------------------------------------------------------------------------
(* The calls.  A call runs to its await in one step (Call...), is resumed  *)
(* with what exec resolved to and runs to its end in one more (Resume...), *)
(* or is rejected with exec's error (ExecReject); other calls run between  *)
(* the two.  pc, op and arg are where a call is, the method it runs and    *)
(* its arguments; answer holds the object that the constant `answer` of a  *)
(* discover call names; out records what exec gave the call, res what the  *)
(* call settled to.                                                        *)

Calls == DOMAIN pc

\* a frame in which every call names the same object
SharedFrame(p) == 1

\* where call p keeps the object it names `answer`: in its own frame, since
\* `const answer = {}` is evaluated by every call
Frame(p) == p

InitOf(calls) ==
  /\ pc = [p \in calls |-> "idle"]
  /\ op = [p \in calls |-> "none"]
  /\ arg = [p \in calls |-> NoArgs]
  /\ out = [p \in calls |-> Resolved(<< >>, << >>)]
  /\ answer = [p \in calls |-> EmptyAnswer]
  /\ res = [p \in calls |-> NoResult]

Call(p, method, a) ==
  /\ pc[p] = "idle"
  /\ pc' = [pc EXCEPT ![p] = "awaiting"]
  /\ op' = [op EXCEPT ![p] = method]
  /\ arg' = [arg EXCEPT ![p] = a]
  /\ UNCHANGED <<out, res>>

\* list(): await this._list(), which awaits exec('lpstat -s')
CallList(p) == Call(p, "list", NoArgs) /\ UNCHANGED answer

\* get(name): await this._list()
CallGet(p, name) == Call(p, "get", [NoArgs EXCEPT !.name = name]) /\ UNCHANGED answer

\* discover(): const answer = {} and then await exec('lpinfo -v')
CallDiscover(p) ==
  /\ Call(p, "discover", NoArgs)
  /\ answer' = [answer EXCEPT ![Frame(p)] = EmptyAnswer]

\* findDrivers(slugs, maxsize): await exec('lpinfo -l -m')
CallFindDrivers(p, a) == Call(p, "findDrivers", a) /\ UNCHANGED answer

Resume(p, method, result) ==
  /\ pc[p] = "awaiting"
  /\ op[p] = method
  /\ pc' = [pc EXCEPT ![p] = "done"]
  /\ out' = [out EXCEPT ![p] = result]
  /\ UNCHANGED <<op, arg>>

ResumeList(p, result) ==
  /\ Resume(p, "list", result)
  /\ res' = [res EXCEPT ![p] = list(result)]
  /\ UNCHANGED answer

ResumeGet(p, result) ==
  /\ Resume(p, "get", result)
  /\ res' = [res EXCEPT ![p] = get(result, arg[p].name)]
  /\ UNCHANGED answer

ResumeDiscover(p, result) ==
  /\ Resume(p, "discover", result)
  /\ answer' = [answer EXCEPT ![Frame(p)] = Answered(answer[Frame(p)], result)]
  /\ res' = [res EXCEPT ![p] = discover(answer[Frame(p)], result)]

ResumeFindDrivers(p, result) ==
  /\ Resume(p, "findDrivers", result)
  /\ res' = [res EXCEPT ![p] = findDrivers(result, arg[p])]
  /\ UNCHANGED answer

\* exec's promise is rejected: the await throws and the call rejects with it
ExecReject(p) ==
  /\ pc[p] = "awaiting"
  /\ pc' = [pc EXCEPT ![p] = "done"]
  /\ out' = [out EXCEPT ![p] = Rejected]
  /\ res' = [res EXCEPT ![p] = Throw("ExecError")]
  /\ UNCHANGED <<op, arg, answer>>

\* the caller takes what the call settled to; the frame is gone
Settle(p) ==
  /\ pc[p] = "done"
  /\ pc' = [pc EXCEPT ![p] = "idle"]
  /\ op' = [op EXCEPT ![p] = "none"]
  /\ arg' = [arg EXCEPT ![p] = NoArgs]
  /\ out' = [out EXCEPT ![p] = Resolved(<< >>, << >>)]
  /\ answer' = [answer EXCEPT ![p] = EmptyAnswer]
  /\ res' = [res EXCEPT ![p] = NoResult]

\* one call at a time, on every text of the pools
Init == InitOf(1..1)

Next ==
  \/ \E p \in Calls : CallList(p)
  \/ \E p \in Calls, name \in NamePool : CallGet(p, name)
  \/ \E p \in Calls : CallDiscover(p)
  \/ \E p \in Calls, a \in QueryPool : CallFindDrivers(p, a)
  \/ \E p \in Calls, result \in PrinterResults : ResumeList(p, result)
  \/ \E p \in Calls, result \in PrinterResults : ResumeGet(p, result)
  \/ \E p \in Calls, result \in DeviceResults : ResumeDiscover(p, result)
  \/ \E p \in Calls, result \in DriverResults : ResumeFindDrivers(p, result)
  \/ \E p \in Calls : ExecReject(p)
  \/ \E p \in Calls : Settle(p)

Spec == Init /\ [][Next]_vars

\* NumCalls calls in flight, interleaved at their awaits
InitConc == InitOf(1..NumCalls)

NextConc ==
  \/ \E p \in Calls : CallList(p)
  \/ \E p \in Calls, name \in ConcNamePool : CallGet(p, name)
  \/ \E p \in Calls : CallDiscover(p)
  \/ \E p \in Calls, a \in ConcQueryPool : CallFindDrivers(p, a)
  \/ \E p \in Calls, result \in ConcPrinterResults : ResumeList(p, result)
  \/ \E p \in Calls, result \in ConcPrinterResults : ResumeGet(p, result)
  \/ \E p \in Calls, result \in ConcDeviceResults : ResumeDiscover(p, result)
  \/ \E p \in Calls, result \in ConcDriverResults : ResumeFindDrivers(p, result)
  \/ \E p \in Calls : ExecReject(p)
  \/ \E p \in Calls : Settle(p)

SpecConc == InitConc /\ [][NextConc]_vars


-----------------------------------------------------------------------------
(* Properties.                                                             *)

\* call p has run `method` to its end on an output that exec resolved to
Finished(p, method) == pc[p] = "done" /\ op[p] = method /\ ~out[p].rejected

Returned(p, method) == Finished(p, method) /\ res[p].kind = "return"

Tokens(line) == Split(line, " ")

Contains(s, t) == \E i \in 1..Len(s) : HasAt(s, i, t)

\* the lines of a discovery output with backend token k whose second token is
\* not in the ignore set, in order
KeptLines(stdout, k) ==
  LET keep(l) == Tokens(l)[1] = k /\ At(Tokens(l), 1) \notin IGNORED_DEVICES
  IN  SelectSeq(DeviceLines(stdout), keep)

\* the devices of a returned mapping paired with the lines they come from
DevicesOf(p) ==
  UNION {{<<res[p].devices[k][i], KeptLines(out[p].stdout, k)[i]>> :
            i \in (DOMAIN res[p].devices[k]) \cap (DOMAIN KeptLines(out[p].stdout, k))} :
         k \in DOMAIN res[p].devices}

\* C2: for every line that is not ignored and whose uri token holds no "://",
\* discover() does not throw and the line's device has an unknown protocol
\* (the empty scheme) and the model "unknown".
C2_NoSchemeIsUnknown ==
  \A p \in Calls :
    Finished(p, "discover") =>
      /\ (\E l \in Range(DeviceLines(out[p].stdout)) :
            /\ Tokens(l)[1] \notin IGNORED_DEVICES
            /\ Truthy(At(Tokens(l), 1))
            /\ At(Tokens(l), 1) \notin IGNORED_DEVICES
            /\ ~Contains(At(Tokens(l), 1), <<":","/","/">>))
         => res[p].kind = "return"
      /\ res[p].kind = "return" =>
           \A d \in DevicesOf(p) :
             (/\ Tokens(d[2])[1] \notin IGNORED_DEVICES
              /\ Truthy(At(Tokens(d[2]), 1))
              /\ ~Contains(At(Tokens(d[2]), 1), <<":","/","/">>))
             => /\ d[1].protocol \in {<< >>, <<"u","n","k","n","o","w","n">>}
                /\ d[1].model = <<"u","n","k","n","o","w","n">>

\* the first position from i on where s holds c, 0 when there is none
FirstFrom(s, i, c) ==
  LET P == {j \in i..Len(s) : s[j] = c} IN IF P = {} THEN 0 ELSE Min(P)

\* t is usb://<vendor>/<product>?<query> with vendor and product not empty
WellFormedUsb(t) ==
  /\ HasAt(t, 1, <<"u","s","b",":","/","/">>)
  /\ FirstFrom(t, 7, "/") > 7
  /\ FirstFrom(t, 7, "?") > FirstFrom(t, 7, "/") + 1

Vendor(t) == SubSeq(t, 7, FirstFrom(t, 7, "/") - 1)

Product(t) == SubSeq(t, FirstFrom(t, 7, "/") + 1, FirstFrom(t, 7, "?") - 1)

\* C3: the device of a line whose uri decodes to usb://<vendor>/<product>?<query>
\* has the model "<vendor> <product>", whatever the query.
C3_UsbModelIsVendorProduct ==
  \A p \in Calls :
    Returned(p, "discover") =>
      \A d \in DevicesOf(p) :
        LET decoded == decodeURIComponent(At(Tokens(d[2]), 1))
        IN  (~decoded.thrown /\ WellFormedUsb(decoded.text))
            => d[1].model = Vendor(decoded.text) \o <<" ">> \o Product(decoded.text)

\* C4: for one slug, findDrivers returns the hits of the longest window that
\* has any (of the whole slug, when that has any), in ranking order, cut to
\* maxsize, and never the hits of a shorter window.
C4_LongestWindowWins ==
  \A p \in Calls :
    (Returned(p, "findDrivers") /\ arg[p].given /\ Len(arg[p].slugs) = 1) =>
      LET drivers == ParseDrivers(Split(out[p].stdout, "\n"), << >>).drivers
          slug == arg[p].slugs[1]
          tokens == Tokens(slug)
          hits(w) == FuzzyFilter(Join(SubSeq(tokens, 1, w)), drivers)
          W == {w \in 1..Len(tokens) : hits(w) # << >>}
          cut(h) == SubSeq(h, 1, Min({Len(h), arg[p].maxsize}))
          refs == [i \in DOMAIN res[p].drivers |-> res[p].drivers[i].ref]
      IN  /\ FuzzyFilter(slug, drivers) # << >> => refs = cut(FuzzyFilter(slug, drivers))
          /\ W # {} => /\ refs = cut(hits(Max(W)))
                       /\ \A i \in DOMAIN refs : res[p].drivers[i] = drivers[refs[i]]

\* a returned query of one slug of several tokens whose full text has hits,
\* other than those of its first token alone
C4_Witness ==
  \E p \in Calls :
    /\ Returned(p, "findDrivers") /\ arg[p].given /\ Len(arg[p].slugs) = 1
    /\ Len(Tokens(arg[p].slugs[1])) > 1
    /\ LET drivers == ParseDrivers(Split(out[p].stdout, "\n"), << >>).drivers
       IN  /\ FuzzyFilter(arg[p].slugs[1], drivers) # << >>
           /\ FuzzyFilter(arg[p].slugs[1], drivers)
                # FuzzyFilter(Tokens(arg[p].slugs[1])[1], drivers)
           /\ res[p].drivers # << >>

\* the status text of the scenario
Scenario1 ==
  <<"s","y","s","t","e","m"," ","d","e","f","a","u","l","t"," ","d","e","s","t","i","n","a","t",
    "i","o","n",":"," ","H","P","_","L","a","s","e","r","J","e","t","\n","p","r","i","n","t","e",
    "r"," ","H","P","_","L","a","s","e","r","J","e","t"," ","i","s"," ","i","d","l","e","."," ",
    " ","e","n","a","b","l","e","d"," ","s","i","n","c","e"," ",".",".",".",":"," ","i","p","p",
    ":","/","/","h","o","s","t","/","p","r","i","n","t","e","r","s","/","H","P","_","L","a","s",
    "e","r","J","e","t","\n">>

OnScenario1(p) ==
  Finished(p, "list") /\ out[p].stdout = Scenario1 /\ out[p].stderr = << >>

\* C5 as stated: on the scenario's text list() yields one record, named
\* HP_LaserJet, with the connection after the colon, and the default.
C5_ScenarioYieldsDefaultPrinter ==
  \A p \in Calls :
    OnScenario1(p) =>
      /\ res[p].kind = "return"
      /\ res[p].printers =
           <<[name |-> <<"H","P","_","L","a","s","e","r","J","e","t">>, connection |-> <<"i","p",
                                                            "p",":","/","/","h","o","s","t","/",
                                                            "p","r","i","n","t","e","r","s","/",
                                                            "H","P","_","L","a","s","e","r","J",
                                                            "e","t">>,
              isDefault |-> TRUE]>>

\* C5 amended: on the scenario's text list() yields one record whose name is
\* the last word before the line's first colon, "...", with the connection
\* after that colon, and which is not the default.
C5_ScenarioYieldsLastWord ==
  \A p \in Calls :
    OnScenario1(p) =>
      /\ res[p].kind = "return"
      /\ res[p].printers =
           <<[name |-> <<".",".",".">>, connection |-> <<"i","p","p",":","/","/","h","o","s","t",
                                                         "/","p","r","i","n","t","e","r","s","/",
                                                         "H","P","_","L","a","s","e","r","J","e",
                                                         "t">>,
              isDefault |-> FALSE]>>

C5_Witness == \E p \in Calls : OnScenario1(p) /\ Len(res[p].printers) = 1

\* a text without a line that is not blank
OnlyBlank(stdout) == \A l \in Range(SplitLines(stdout)) : Trim(l) = << >>

\* C6: when the command fails, writes to stderr, prints nothing or prints
\* blank lines only, list() settles to the empty sequence and get() to no
\* printer, and neither throws.
C6_ListNeverThrows ==
  \A p \in Calls :
    (/\ pc[p] = "done" /\ op[p] \in {"list", "get"}
     /\ \/ out[p].rejected
        \/ out[p].stderr # << >>
        \/ OnlyBlank(out[p].stdout))
    => /\ res[p].kind = "return"
       /\ res[p].printers = << >>
       /\ res[p].printer = << >>

\* what a call settles to when it is the only one: its code run on a new frame
Alone(method, a, o) ==
  IF o.rejected THEN Throw("ExecError")
  ELSE IF method = "list" THEN list(o)
  ELSE IF method = "get" THEN get(o, a.name)
  ELSE IF method = "discover" THEN discover(EmptyAnswer, o)
  ELSE findDrivers(o, a)

\* C7: under every interleaving of the calls at their awaits, a call settles
\* to what it would settle to alone on the output it received, and the object
\* a suspended discover call filled nothing into yet is still empty when the
\* call resumes: no other call wrote to it.
C7_CallsDoNotInterfere ==
  \A p \in Calls :
    /\ pc[p] = "done" => res[p] = Alone(op[p], arg[p], out[p])
    /\ pc[p] = "awaiting" => answer[p] = EmptyAnswer /\ res[p] = NoResult
    /\ (pc[p] = "done" /\ op[p] = "discover" /\ res[p].kind = "return")
         => answer[p] = res[p].devices

\* a discover call suspended at its await while another discover call has
\* run to its end and returned devices
C7_Witness ==
  \E p, q \in Calls :
    /\ p # q
    /\ pc[p] = "awaiting" /\ op[p] = "discover"
    /\ Returned(q, "discover") /\ DOMAIN res[q].devices # {}

\* C8: every element of what findDrivers returns for a list of slugs is a
\* record of the catalog, and the result is empty when no slug has a hit.
C8_NoHitNoElement ==
  \A p \in Calls :
    (Returned(p, "findDrivers") /\ arg[p].given /\ arg[p].slugs # << >>) =>
      LET drivers == ParseDrivers(Split(out[p].stdout, "\n"), << >>).drivers
          nohit(slug) ==
            \A w \in 1..Len(Tokens(slug)) :
              FuzzyFilter(Join(SubSeq(Tokens(slug), 1, w)), drivers) = << >>
      IN  /\ \A i \in DOMAIN res[p].drivers : res[p].drivers[i] \in Range(drivers)
          /\ (\A i \in DOMAIN arg[p].slugs : nohit(arg[p].slugs[i]))
               => res[p].drivers = << >>

\* the lines of a listing: the text between newlines, the last one ended by a
\* newline or by the end of the text
ListingLines(stdout) ==
  LET pieces == Split(stdout, "\n")
  IN  IF pieces[Len(pieces)] = << >> THEN SubSeq(pieces, 1, Len(pieces) - 1) ELSE pieces

\* the text after the first '=' of a line, trimmed
Value(line) == Trim(From(line, FirstFrom(line, 1, "=") + 1))

\* C9: on a listing of n lines label=value, findDrivers without slugs returns
\* n \div 4 records, the k-th built from lines 4k-3..4k as driver, lang,
\* makeAndModel and id, each the trimmed text after the line's first '='.
C9_FourLinesPerDriver ==
  \A p \in Calls :
    (/\ Finished(p, "findDrivers") /\ ~arg[p].given
     /\ \A l \in Range(ListingLines(out[p].stdout)) : Contains(l, <<"=">>))
    => LET lines == ListingLines(out[p].stdout)
       IN  /\ res[p].kind = "return"
           /\ Len(res[p].drivers) = Len(lines) \div 4
           /\ \A k \in DOMAIN res[p].drivers :
                /\ res[p].drivers[k].driver = Value(lines[4 * k - 3])
                /\ res[p].drivers[k].lang = Value(lines[4 * k - 2])
                /\ res[p].drivers[k].makeAndModel = Value(lines[4 * k - 1])
                /\ res[p].drivers[k].id = Value(lines[4 * k])

\* the position of the first "://" of t, 0 when there is none
FirstSchemeEnd(t) ==
  LET P == {i \in 1..Len(t) : HasAt(t, i, <<":","/","/">>)} IN IF P = {} THEN 0 ELSE Min(P)

\* C10: the protocol of a device is the run of letters that starts the
\* decoded uri and ends before its first "://", whatever follows, and the
\* device is filed under the first token of its line.
C10_ProtocolIsLeadingScheme ==
  \A p \in Calls :
    Returned(p, "discover") =>
      /\ \A d \in DevicesOf(p) :
           LET decoded == decodeURIComponent(At(Tokens(d[2]), 1)).text
               e == FirstSchemeEnd(decoded)
           IN  (e > 1 /\ \A i \in 1..(e - 1) : decoded[i] \in Letters)
               => d[1].protocol = SubSeq(decoded, 1, e - 1)
      /\ \A k \in DOMAIN res[p].devices :
           Len(res[p].devices[k]) = Len(KeptLines(out[p].stdout, k))


====
